---------------------------- MODULE Spec2Model ----------------------------
(***************************************************************************)
(* A state-machine model of the uco training / inference harness:          *)
(*   - src/uco/runner.py        ManagerBase, TrainingManager,              *)
(*                              InferenceManager                           *)
(*   - src/uco/model/metric.py  dice / precision / recall / _confusion     *)
(*                                                                         *)
(* Three specifications share the module:                                  *)
(*   SpecTrain   one call of TrainingManager.run, statement by statement   *)
(*   SpecInfer   one call of InferenceManager.run, statement by statement  *)
(*   SpecMetric  the metric functions applied to bounded tensors           *)
(*                                                                         *)
(* Collaborators that live outside the two source files (the component     *)
(* modules reached through getattr, torch.load, the Trainer, the h5        *)
(* writer, the data loader) are environment: a call into one of them       *)
(* either returns or raises, chosen nondeterministically.                  *)
(***************************************************************************)
EXTENDS Integers, Sequences, FiniteSets, TLC

(***************************************************************************)
(* Bounds of the model.                                                    *)
(***************************************************************************)
\* torch.cuda.device_count() ranges over 0..MaxDevices; requested device
\* indices range over 0..MaxDevices, so the largest index is never available.
MaxDevices == 2
\* target_devices lists have at most MaxTargets entries.
MaxTargets == 2
\* checkpoint["epoch"] ranges over 0..MaxEpoch.
MaxEpoch == 1
\* monitor_best and score_threshold, in hundredths, range over 0..MaxScore.
MaxScore == 2
\* the inference data loader yields at most MaxBatches batches.
MaxBatches == 2
\* metric tensors: batch size B in 1..MaxBatch, H*W in 1..MaxPixels, and
\* B*H*W at most MaxCells.
MaxBatch == 2
MaxPixels == 2
MaxCells == 4
\* a model has at most MaxParams named parameters (SpecParams).
MaxParams == 3

VARIABLES
    \* ---- ManagerBase / both managers ----
    self_cfg,       \* self.cfg: the top-level configuration dict
    heap,           \* the nested {type, args} dict objects self.cfg refers to
    cfg0,           \* history: the contents of self.cfg when run() was entered
    cfg,            \* the local `cfg = self.cfg.copy()`
    pc,             \* position inside run()
    err,            \* the exception that left run(), or "none"
    calls,          \* history: the collaborator calls made so far, in order
    \* ---- TrainingManager.run locals ----
    model,
    device,
    device_count,   \* what torch.cuda.device_count() returned
    param_groups,
    optimizer,
    resume,         \* the `resume` argument of run()
    checkpoint,     \* what torch.load returned
    start_epoch,
    pre_resume,     \* history: model and optimizer when resume_checkpoint was entered
    \* ---- InferenceManager.run locals (it also uses model, device, checkpoint) ----
    best_score,
    loader,         \* len(data_loader): the batches it yields are 1..loader
    bidx,           \* how many batches the loop has taken from the loader
    writes,         \* history: the writer.write calls, in order
    closes,         \* history: how many times writer.close was called
    \* ---- metric module: the arguments and results of the metric functions ----
    output,         \* output[b][c][i]: probability in percent
    targets,        \* targets[b][c][i]
    class_,         \* the class the metric is computed for
    mpc,            \* which metric functions have been applied
    confusion,      \* per threshold: what _confusion returned inside precision
    dice,           \* per threshold: what dice_c returned
    prec,           \* per threshold: what precision returned
    rec             \* per threshold: what recall returned

managerVars == <<self_cfg, heap, cfg0, cfg, pc, err, calls>>
trainVars == <<model, device, device_count, param_groups, optimizer, resume,
               checkpoint, start_epoch, pre_resume>>
inferVars == <<best_score, loader, bidx, writes, closes>>
metricVars == <<output, targets, class_, mpc, confusion, dice, prec, rec>>
vars == <<managerVars, trainVars, inferVars, metricVars>>

(***************************************************************************)
(* Small helpers.                                                          *)
(***************************************************************************)
RECURSIVE SeqMax(_)
\* max(list) of a non-empty list of integers
SeqMax(s) ==
    IF Len(s) = 1 THEN s[1]
    ELSE LET m == SeqMax(Tail(s)) IN IF s[1] > m THEN s[1] ELSE m

\* Sequences over S of length at most n, without repeated entries.
ListsUpTo(S, n) ==
    { s \in UNION { [1..k -> S] : k \in 0..n } :
        \A i, j \in 1..Len(s) : i # j => s[i] # s[j] }

(***************************************************************************)
(* The configuration.  The top-level dict holds, under each component key, *)
(* a reference to a nested dict {type, args}; the nested dicts live in     *)
(* `heap`.  dict.copy() is shallow: it copies the top level and shares the *)
(* nested dicts.                                                           *)
(***************************************************************************)
CompKeys == {"arch", "optimizer", "lr_scheduler", "augmentation", "data_loader", "loss"}

Ref(owner, key) == <<owner, key>>
Refs == { Ref("config", k) : k \in CompKeys }

AugTypes == {"LightTransforms", "HeavyTransforms"}
OptTypes == {"SGD", "Adam"}
TargetLists == ListsUpTo(0..MaxDevices, MaxTargets)
ResumePaths == {"", "checkpoint.pth"}

\* The dict a component key of `config` refers to: config[name]
Block(h, config, name) == h[config.blocks[name]]

\* dict.copy(): a new top-level dict with the same values, nested dicts shared
ShallowCopy(config) == config

\* The whole contents of a configuration, nested dicts followed (h the heap).
Contents(h, config) ==
    [ blocks |-> [k \in CompKeys |-> Block(h, config, k)],
      target_devices |-> config.target_devices,
      metrics |-> config.metrics,
      device |-> config.device,
      score_threshold |-> config.score_threshold ]

NoCfg == [ blocks |-> [k \in CompKeys |-> Ref("none", k)],
           target_devices |-> <<>>, metrics |-> <<>>,
           device |-> "None", score_threshold |-> 0 ]

(***************************************************************************)
(* ManagerBase.get_instance: resolves config[name]["type"] in the module   *)
(* and calls it with config[name]["args"].  The operator gives the call    *)
(* that is made; whether the lookup and the constructor succeed is the     *)
(* environment's choice, made in the calling action.                       *)
(***************************************************************************)
get_instance(h, name, config) ==
    [ op |-> name,
      type |-> Block(h, config, name).type,
      args |-> Block(h, config, name).args ]

\* a call of something other than get_instance
Plain(op) == [ op |-> op, type |-> "", args |-> "" ]

Logged(c, result) ==
    [ op |-> c.op, type |-> c.type, args |-> c.args, result |-> result ]

(***************************************************************************)
(* ManagerBase.setup_device(model, target_devices), with n the value of    *)
(* torch.cuda.device_count().                                              *)
(***************************************************************************)
CpuDevice == [ type |-> "cpu", index |-> 0 ]
CudaDevice(i) == [ type |-> "cuda", index |-> i ]
NoDevice == [ type |-> "unset", index |-> 0 ]

\* model.to(device)
ModelTo(m, d) == [m EXCEPT !.placed = d]
\* nn.DataParallel(model, device_ids=ids)
DataParallel(m, ids) == [m EXCEPT !.parallel = TRUE, !.device_ids = ids]

\* setup_device comparing the largest requested index with the device count
\* instead of the largest available index (an off-by-one)
setup_device_off_by_one(m, target_devices, n) ==
    IF n = 0
    THEN [ raised |-> FALSE, model |-> ModelTo(m, CpuDevice), device |-> CpuDevice ]
    ELSE IF target_devices = <<>>
    THEN [ raised |-> FALSE, model |-> ModelTo(m, CpuDevice), device |-> CpuDevice ]
    ELSE IF SeqMax(target_devices) > n
    THEN [ raised |-> TRUE, model |-> m, device |-> NoDevice ]
    ELSE LET d == CudaDevice(target_devices[1]) IN
         IF Len(target_devices) > 1
         THEN [ raised |-> FALSE, model |-> DataParallel(m, target_devices), device |-> d ]
         ELSE [ raised |-> FALSE, model |-> ModelTo(m, d), device |-> d ]

setup_device(m, target_devices, n) ==
    IF n = 0
    THEN [ raised |-> FALSE, model |-> ModelTo(m, CpuDevice), device |-> CpuDevice ]
    ELSE IF target_devices = <<>>
    THEN [ raised |-> FALSE, model |-> ModelTo(m, CpuDevice), device |-> CpuDevice ]
    ELSE IF SeqMax(target_devices) > n - 1
    THEN [ raised |-> TRUE, model |-> m, device |-> NoDevice ]
    ELSE LET d == CudaDevice(target_devices[1]) IN
         IF Len(target_devices) > 1
         THEN [ raised |-> FALSE, model |-> DataParallel(m, target_devices), device |-> d ]
         ELSE [ raised |-> FALSE, model |-> ModelTo(m, d), device |-> d ]


(***************************************************************************)
(* The model object and TrainingManager.setup_param_groups_classifier.     *)
(* A parameter name is its dotted path; name.endswith("bias") looks at the *)
(* end of the last component.                                              *)
(***************************************************************************)
NamedParameters ==
    << <<"encoder", "weight">>, <<"encoder", "bias">>,
       <<"decoder", "weight">>, <<"decoder", "bias">> >>

NoModel == [ built |-> FALSE, weights |-> "none", placed |-> NoDevice,
             parallel |-> FALSE, device_ids |-> <<>>, params |-> <<>> ]

\* what getattr(module_arch, ctor_name)(**args) returns
NewModel == [ built |-> TRUE, weights |-> "initial", placed |-> NoDevice,
              parallel |-> FALSE, device_ids |-> <<>>, params |-> NamedParameters ]

EndsWithBias(name) == name[Len(name)] = "bias"
NotEndsWithBias(name) == ~EndsWithBias(name)

\* a grouping that takes every name containing "bias" for a bias
ContainsBias(name) == \E k \in 1..Len(name) : name[k] = "bias"
NotContainsBias(name) == ~ContainsBias(name)
setup_param_groups_classifier_contains(m, config) ==
    LET weight_params == SelectSeq(m.params, NotContainsBias)
        bias_params == SelectSeq(m.params, ContainsBias)
    IN << [ params |-> weight_params, opts |-> config.args ],
          [ params |-> bias_params, opts |-> config.args ] >>

setup_param_groups_classifier(m, config) ==
    LET weight_params == SelectSeq(m.params, NotEndsWithBias)
        bias_params == SelectSeq(m.params, EndsWithBias)
    IN << [ params |-> weight_params, opts |-> config.args ],
          [ params |-> bias_params, opts |-> config.args ] >>

NoOptimizer == [ built |-> FALSE, type |-> "", param_groups |-> <<>>, state |-> "none" ]

\* what getattr(module_optimizer, ctor_name)(param_groups, **args) returns
NewOptimizer(type, groups) ==
    [ built |-> TRUE, type |-> type, param_groups |-> groups, state |-> "fresh" ]

(***************************************************************************)
(* Checkpoints: what torch.load can return.                                *)
(***************************************************************************)
Scores == 0..MaxScore

CheckpointFiles ==
    [ epoch : 0..MaxEpoch, optimizer_type : OptTypes,
      monitor_best : Scores, is_tensor : BOOLEAN ]

NoCheckpoint ==
    [ loaded |-> FALSE, state_dict |-> "none", optimizer |-> "none", epoch |-> 0,
      monitor_best |-> 0, is_tensor |-> FALSE,
      config |-> [ blocks |-> [k \in CompKeys |-> Ref("none", k)] ] ]

\* the checkpoint dict built by torch.load from file f
Loaded(f) ==
    [ loaded |-> TRUE, state_dict |-> "saved_weights", optimizer |-> "saved_state",
      epoch |-> f.epoch,
      \* a scalar tensor is a one-element container around the number
      monitor_best |-> IF f.is_tensor THEN <<f.monitor_best>> ELSE f.monitor_best,
      is_tensor |-> f.is_tensor,
      config |-> [ blocks |-> [k \in CompKeys |-> Ref("checkpoint", k)] ] ]

\* the nested dicts of checkpoint["config"] that torch.load creates
LoadedBlocks(f) ==
    [ k \in CompKeys |->
        [ type |-> CASE k = "optimizer" -> f.optimizer_type
                     [] k = "augmentation" -> "HeavyTransforms"
                     [] OTHER -> "Saved_" \o k,
          args |-> "saved_" \o k \o "_args" ] ]

AllRefs == Refs \cup { Ref("checkpoint", k) : k \in CompKeys }
                \cup { Ref("none", k) : k \in CompKeys }

HeapAfterLoad(h, f) ==
    [ r \in AllRefs |-> IF r[1] = "checkpoint" THEN LoadedBlocks(f)[r[2]] ELSE h[r] ]

(***************************************************************************)
(* TrainingManager.resume_checkpoint, with ckpt what torch.load returned   *)
(* (read only when resume_path is not empty) and h the heap after it.      *)
(***************************************************************************)
\* resume_checkpoint without the optimizer-type test: the saved optimizer state
\* is always loaded
resume_checkpoint_always_loads(h, resume_path, m, opt, config, ckpt) ==
    IF resume_path = ""
    THEN [ model |-> m, optimizer |-> opt, epoch |-> 0 ]
    ELSE [ model |-> [m EXCEPT !.weights = ckpt.state_dict],
           optimizer |-> [opt EXCEPT !.state = ckpt.optimizer],
           epoch |-> ckpt.epoch ]

resume_checkpoint(h, resume_path, m, opt, config, ckpt) ==
    IF resume_path = ""
    THEN [ model |-> m, optimizer |-> opt, epoch |-> 0 ]
    ELSE [ model |-> [m EXCEPT !.weights = ckpt.state_dict],
           optimizer |->
               IF Block(h, ckpt.config, "optimizer").type # Block(h, config, "optimizer").type
               THEN opt
               ELSE [opt EXCEPT !.state = ckpt.optimizer],
           epoch |-> ckpt.epoch ]


(***************************************************************************)
(* Bookkeeping shared by the actions of both run() methods.                *)
(***************************************************************************)
cfgVars == <<self_cfg, heap, cfg0, cfg>>

\* record a collaborator call and how it ended
Step(c, result) == calls' = Append(calls, Logged(c, result))

\* the statement completed: go on with statement p
Goto(p) == pc' = p /\ err' = err

\* a run() that catches the exception and runs statement `at` again
Raise_and_retry(at, e) == pc' = at /\ err' = e

\* an exception leaves run() from statement `at`: nothing in run() catches it
Raise(at, e) == pc' = "raised" /\ err' = e

\* names module_metric defines (src/uco/model/metric.py)
MetricNames ==
    { "dice_mean", "dice_0", "dice_1", "dice_2", "dice_3",
      "accuracy_0", "accuracy_1", "accuracy_2", "accuracy_3",
      "precision_0", "precision_1", "precision_2", "precision_3",
      "recall_0", "recall_1", "recall_2", "recall_3",
      "precision_0_50", "recall_0_50" }

MetricLists == { <<"dice_mean", "precision_0_50">>, <<"dice_mean", "f1_score">> }

\* a fallback that forgets to replace the type and retries the configured one
SetAugmentationType_forgotten(h, config) == h

\* cfg["augmentation"]["type"] = "LightTransforms": an item assignment on the
\* nested dict that cfg["augmentation"] refers to
SetAugmentationType(h, config) ==
    [h EXCEPT ![config.blocks["augmentation"]].type = "LightTransforms"]

(***************************************************************************)
(* TrainingManager.run, one action per statement.                          *)
(***************************************************************************)
TrainCheckpointFiles ==
    { f \in CheckpointFiles : f.monitor_best = 0 /\ ~f.is_tensor }

InitHeap(augType, optType) ==
    [ r \in AllRefs |->
        IF r[1] = "config"
        THEN [ type |-> CASE r[2] = "augmentation" -> augType
                          [] r[2] = "optimizer" -> optType
                          [] OTHER -> "Configured_" \o r[2],
               args |-> r[2] \o "_args" ]
        ELSE [ type |-> "", args |-> "" ] ]

InitManager(devs, metrics, dev, threshold, augType, optType) ==
    /\ self_cfg = [ blocks |-> [k \in CompKeys |-> Ref("config", k)],
                    target_devices |-> devs, metrics |-> metrics,
                    device |-> dev, score_threshold |-> threshold ]
    /\ heap = InitHeap(augType, optType)
    /\ cfg0 = Contents(heap, self_cfg)
    /\ cfg = NoCfg
    /\ pc = "copy"
    /\ err = "none"
    /\ calls = <<>>

IdleTrainLocals ==
    /\ model = NoModel
    /\ device = NoDevice
    /\ device_count = 0
    /\ param_groups = <<>>
    /\ optimizer = NoOptimizer
    /\ checkpoint = NoCheckpoint
    /\ start_epoch = 0
    /\ pre_resume = [ model |-> NoModel, optimizer |-> NoOptimizer ]

IdleInferLocals ==
    /\ best_score = 0
    /\ loader = 0
    /\ bidx = 0
    /\ writes = <<>>
    /\ closes = 0

IdleMetric ==
    /\ output = <<>>
    /\ targets = <<>>
    /\ class_ = 0
    /\ mpc = "idle"
    /\ confusion = <<>>
    /\ dice = <<>>
    /\ prec = <<>>
    /\ rec = <<>>

InitTrain ==
    /\ IdleInferLocals
    /\ IdleMetric
    /\ \E devs \in TargetLists, metrics \in MetricLists,
          augType \in AugTypes, optType \in OptTypes :
           InitManager(devs, metrics, "None", 0, augType, optType)
    /\ resume \in ResumePaths
    /\ IdleTrainLocals

\* cfg = self.cfg.copy()
Train_Copy ==
    /\ pc = "copy"
    /\ cfg' = ShallowCopy(self_cfg)
    /\ Goto("arch")
    /\ UNCHANGED <<self_cfg, heap, cfg0, calls, trainVars>>
    /\ UNCHANGED <<inferVars, metricVars>>

\* model = self.get_instance(module_arch, "arch", cfg)
Train_Arch ==
    /\ pc = "arch"
    /\ LET c == get_instance(heap, "arch", cfg) IN
        \/ Step(c, "ok") /\ model' = NewModel /\ Goto("setup_device")
        \/ Step(c, "raised") /\ UNCHANGED model /\ Raise("arch", "ConstructionError")
    /\ UNCHANGED <<cfgVars, device, device_count, param_groups, optimizer, resume,
                   checkpoint, start_epoch, pre_resume>>
    /\ UNCHANGED <<inferVars, metricVars>>

\* model, device = self.setup_device(model, cfg["target_devices"])
Train_SetupDevice ==
    /\ pc = "setup_device"
    /\ \E n \in 0..MaxDevices :
        LET r == setup_device(model, cfg.target_devices, n) IN
        /\ device_count' = n
        /\ IF r.raised
           THEN /\ Step(Plain("setup_device"), "raised")
                /\ Raise("setup_device", "Exception")
                /\ UNCHANGED <<model, device>>
           ELSE /\ Step(Plain("setup_device"), "ok")
                /\ model' = r.model
                /\ device' = r.device
                /\ Goto("param_groups")
    /\ UNCHANGED <<cfgVars, param_groups, optimizer, resume, checkpoint,
                   start_epoch, pre_resume>>
    /\ UNCHANGED <<inferVars, metricVars>>

\* param_groups = self.setup_param_groups_classifier(model, cfg["optimizer"])
Train_ParamGroups ==
    /\ pc = "param_groups"
    /\ param_groups' = setup_param_groups_classifier(model, Block(heap, cfg, "optimizer"))
    /\ Step(Plain("param_groups"), "ok")
    /\ Goto("optimizer")
    /\ UNCHANGED <<cfgVars, model, device, device_count, optimizer, resume,
                   checkpoint, start_epoch, pre_resume>>
    /\ UNCHANGED <<inferVars, metricVars>>

\* optimizer = self.get_instance(module_optimizer, "optimizer", cfg, param_groups)
Train_Optimizer ==
    /\ pc = "optimizer"
    /\ LET c == get_instance(heap, "optimizer", cfg) IN
        \/ /\ Step(c, "ok")
           /\ optimizer' = NewOptimizer(c.type, param_groups)
           /\ Goto("lr_scheduler")
        \/ Step(c, "raised") /\ UNCHANGED optimizer /\ Raise("optimizer", "ConstructionError")
    /\ UNCHANGED <<cfgVars, model, device, device_count, param_groups, resume,
                   checkpoint, start_epoch, pre_resume>>
    /\ UNCHANGED <<inferVars, metricVars>>

\* lr_scheduler = self.get_instance(module_scheduler, "lr_scheduler", cfg, optimizer)
Train_Scheduler ==
    /\ pc = "lr_scheduler"
    /\ LET c == get_instance(heap, "lr_scheduler", cfg) IN
        \/ Step(c, "ok") /\ Goto("resume_checkpoint")
        \/ Step(c, "raised") /\ Raise("lr_scheduler", "ConstructionError")
    /\ UNCHANGED <<cfgVars, trainVars>>
    /\ UNCHANGED <<inferVars, metricVars>>

\* model, optimizer, start_epoch = self.resume_checkpoint(resume, model, optimizer, cfg)
Train_Resume ==
    /\ pc = "resume_checkpoint"
    /\ pre_resume' = [ model |-> model, optimizer |-> optimizer ]
    /\ \/ /\ resume = ""
          /\ LET r == resume_checkpoint(heap, resume, model, optimizer, cfg, checkpoint) IN
               /\ model' = r.model
               /\ optimizer' = r.optimizer
               /\ start_epoch' = r.epoch
          /\ Step(Plain("resume_checkpoint"), "ok")
          /\ Goto("augmentation")
          /\ UNCHANGED <<heap, checkpoint>>
       \/ /\ resume # ""
          /\ \E f \in TrainCheckpointFiles :
               LET ckpt == Loaded(f)
                   h == HeapAfterLoad(heap, f)
                   r == resume_checkpoint(h, resume, model, optimizer, cfg, ckpt)
               IN /\ checkpoint' = ckpt
                  /\ heap' = h
                  /\ model' = r.model
                  /\ optimizer' = r.optimizer
                  /\ start_epoch' = r.epoch
          /\ Step(Plain("resume_checkpoint"), "ok")
          /\ Goto("augmentation")
       \/ /\ resume # ""       \* torch.load or a load_state_dict raises
          /\ Step(Plain("resume_checkpoint"), "raised")
          /\ Raise("resume_checkpoint", "LoadError")
          /\ UNCHANGED <<heap, checkpoint, model, optimizer, start_epoch>>
    /\ UNCHANGED <<self_cfg, cfg0, cfg, device, device_count, param_groups, resume>>
    /\ UNCHANGED <<inferVars, metricVars>>

\* try: transforms = self.get_instance(module_aug, "augmentation", cfg)
Train_Augmentation ==
    /\ pc = "augmentation"
    /\ LET c == get_instance(heap, "augmentation", cfg) IN
        \/ Step(c, "ok") /\ Goto("data_loader")
        \/ Step(c, "raised") /\ Goto("aug_except")      \* caught by the bare except
    /\ UNCHANGED <<cfgVars, trainVars>>
    /\ UNCHANGED <<inferVars, metricVars>>

\* except: cfg["augmentation"]["type"] = "LightTransforms"
\*         transforms = self.get_instance(module_aug, "augmentation", cfg)
Train_AugmentationFallback ==
    /\ pc = "aug_except"
    /\ heap' = SetAugmentationType(heap, cfg)
    /\ LET c == get_instance(heap', "augmentation", cfg) IN
        \/ Step(c, "ok") /\ Goto("data_loader")
        \/ Step(c, "raised") /\ Raise("augmentation", "ConstructionError")
    /\ UNCHANGED <<self_cfg, cfg0, cfg, trainVars>>
    /\ UNCHANGED <<inferVars, metricVars>>

\* data_loader = self.get_instance(module_data, "data_loader", cfg, transforms)
Train_DataLoader ==
    /\ pc = "data_loader"
    /\ LET c == get_instance(heap, "data_loader", cfg) IN
        \/ Step(c, "ok") /\ Goto("split_validation")
        \/ Step(c, "raised") /\ Raise("data_loader", "ConstructionError")
    /\ UNCHANGED <<cfgVars, trainVars>>
    /\ UNCHANGED <<inferVars, metricVars>>

\* valid_data_loader = data_loader.split_validation()
Train_SplitValidation ==
    /\ pc = "split_validation"
    /\ \/ Step(Plain("split_validation"), "ok") /\ Goto("loss")
       \/ Step(Plain("split_validation"), "raised") /\ Raise("split_validation", "Exception")
    /\ UNCHANGED <<cfgVars, trainVars>>
    /\ UNCHANGED <<inferVars, metricVars>>

\* loss = self.get_instance(module_loss, "loss", cfg).to(device)
Train_Loss ==
    /\ pc = "loss"
    /\ LET c == get_instance(heap, "loss", cfg) IN
        \/ Step(c, "ok") /\ Goto("metrics")
        \/ Step(c, "raised") /\ Raise("loss", "ConstructionError")
    /\ UNCHANGED <<cfgVars, trainVars>>
    /\ UNCHANGED <<inferVars, metricVars>>

\* metrics = [getattr(module_metric, met) for met in cfg["metrics"]]
Train_Metrics ==
    /\ pc = "metrics"
    /\ IF \A i \in 1..Len(cfg.metrics) : cfg.metrics[i] \in MetricNames
       THEN Step(Plain("metrics"), "ok") /\ Goto("Trainer")
       ELSE Step(Plain("metrics"), "raised") /\ Raise("metrics", "AttributeError")
    /\ UNCHANGED <<cfgVars, trainVars>>
    /\ UNCHANGED <<inferVars, metricVars>>

\* trainer = Trainer(model, loss, metrics, optimizer, ...)
Train_Trainer ==
    /\ pc = "Trainer"
    /\ \/ Step(Plain("Trainer"), "ok") /\ Goto("train")
       \/ Step(Plain("Trainer"), "raised") /\ Raise("Trainer", "Exception")
    /\ UNCHANGED <<cfgVars, trainVars>>
    /\ UNCHANGED <<inferVars, metricVars>>

\* checkpoint_dir = trainer.train()
Train_Train ==
    /\ pc = "train"
    /\ \/ Step(Plain("train"), "ok") /\ Goto("return")
       \/ Step(Plain("train"), "raised") /\ Raise("train", "Exception")
    /\ UNCHANGED <<cfgVars, trainVars>>
    /\ UNCHANGED <<inferVars, metricVars>>

\* return checkpoint_dir
Train_Return ==
    /\ pc = "return"
    /\ Goto("done")
    /\ UNCHANGED <<cfgVars, calls, trainVars>>
    /\ UNCHANGED <<inferVars, metricVars>>

NextTrain ==
    \/ Train_Copy
    \/ Train_Arch
    \/ Train_SetupDevice
    \/ Train_ParamGroups
    \/ Train_Optimizer
    \/ Train_Scheduler
    \/ Train_Resume
    \/ Train_Augmentation
    \/ Train_AugmentationFallback
    \/ Train_DataLoader
    \/ Train_SplitValidation
    \/ Train_Loss
    \/ Train_Metrics
    \/ Train_Trainer
    \/ Train_Train
    \/ Train_Return

SpecTrain == InitTrain /\ [][NextTrain]_vars


(***************************************************************************)
(* Properties of TrainingManager.run (checked under SpecTrain).            *)
(***************************************************************************)
Called(op) == \E i \in 1..Len(calls) : calls[i].op = op
Returned(op) == \E i \in 1..Len(calls) : calls[i].op = op /\ calls[i].result = "ok"
RaisedIn(op) == \E i \in 1..Len(calls) : calls[i].op = op /\ calls[i].result = "raised"

\* C3: resume_checkpoint with a non-empty resume path and a checkpoint whose
\* optimizer type differs from the configured one returns the optimizer as it
\* was passed in (fresh state, the saved state not loaded), the model with the
\* checkpoint's state_dict as weights, and the checkpoint's epoch; with an empty
\* resume path it returns model and optimizer unchanged and epoch 0.
C3_ResumeCheckpoint ==
    Returned("resume_checkpoint") =>
        /\ resume = "" =>
              /\ model = pre_resume.model
              /\ optimizer = pre_resume.optimizer
              /\ start_epoch = 0
        /\ ( /\ resume # ""
             /\ heap[Ref("checkpoint", "optimizer")].type
                    # heap[Ref("config", "optimizer")].type ) =>
              /\ optimizer = pre_resume.optimizer
              /\ optimizer.state = "fresh"
              /\ optimizer.state # checkpoint.optimizer
              /\ model.weights = checkpoint.state_dict
              /\ start_epoch = checkpoint.epoch

\* C3 witness: a resume from a checkpoint of another optimizer type and a later
\* epoch has returned.
C3_Witness ==
    /\ Returned("resume_checkpoint")
    /\ resume # ""
    /\ heap[Ref("checkpoint", "optimizer")].type # heap[Ref("config", "optimizer")].type
    /\ checkpoint.epoch > 0
    /\ model.weights = "saved_weights"

AugCalls == SelectSeq(calls, LAMBDA c : c.op = "augmentation")

\* C4: augmentation construction is attempted at most twice; a failed first
\* attempt is followed by exactly one retry with type "LightTransforms" and the
\* same args; a failed retry leaves run() with the exception; after a successful
\* first attempt there is no retry and the configured type is unchanged.
C4_AugmentationFallback ==
    LET A == AugCalls IN
    /\ Len(A) <= 2
    /\ (Len(A) >= 1 /\ A[1].result = "ok") =>
          /\ Len(A) = 1
          /\ Block(heap, cfg, "augmentation").type = cfg0.blocks["augmentation"].type
    /\ (Len(A) >= 1 /\ A[1].result = "raised") =>
          /\ A[1].type = cfg0.blocks["augmentation"].type
          /\ pc # "aug_except" =>
                /\ Len(A) = 2
                /\ A[2].type = "LightTransforms"
                /\ A[2].args = A[1].args
                /\ Block(heap, cfg, "augmentation").type = "LightTransforms"
    /\ (Len(A) = 2 /\ A[2].result = "raised") =>
          /\ pc = "raised"
          /\ calls[Len(calls)] = A[2]
    /\ pc = "aug_except" => (Len(A) = 1 /\ A[1].result = "raised")

\* C4 witness: the configured HeavyTransforms failed and the retry with
\* LightTransforms succeeded.
C4_Witness ==
    /\ Len(AugCalls) = 2
    /\ AugCalls[1].type = "HeavyTransforms"
    /\ AugCalls[1].result = "raised"
    /\ AugCalls[2].result = "ok"
    /\ pc = "data_loader"

\* C5 (as claimed): when run() has ended, self.cfg, nested blocks included, has
\* the contents it had when run() was entered.
C5_CfgImmutable ==
    pc \in {"done", "raised"} => Contents(heap, self_cfg) = cfg0

\* C6: setup_device returns CPU and the model moved to CPU when no device is
\* available; with devices available it raises, leaving the model alone, when
\* the largest requested index exceeds the largest available one, returns CPU
\* when target_devices is empty, and otherwise returns cuda:<first requested>
\* with the model wrapped in DataParallel iff more than one device is requested.
C6_SetupDevice ==
    LET t == cfg.target_devices
        n == device_count
        tooLarge == \E i \in 1..Len(t) : t[i] > n - 1
        onCpu == /\ Returned("setup_device")
                 /\ device = CpuDevice
                 /\ model.placed = CpuDevice
                 /\ ~model.parallel
    IN Called("setup_device") =>
        /\ n = 0 => onCpu
        /\ (n > 0 /\ t = <<>>) => onCpu
        /\ (n > 0 /\ tooLarge) =>
              /\ RaisedIn("setup_device")
              /\ pc = "raised"
              /\ device = NoDevice
              /\ model = NewModel
        /\ (n > 0 /\ t # <<>> /\ ~tooLarge) =>
              /\ Returned("setup_device")
              /\ device = CudaDevice(t[1])
              /\ model.parallel <=> Len(t) > 1
              /\ model.parallel => (model.device_ids = t /\ model.placed = NoDevice)
              /\ ~model.parallel => model.placed = device

\* C6 witness: two available devices, both requested, the model wrapped.
C6_Witness ==
    /\ Returned("setup_device")
    /\ device_count > 1
    /\ Len(cfg.target_devices) > 1
    /\ model.parallel
    /\ device = CudaDevice(cfg.target_devices[1])

TrainOrder ==
    << "arch", "setup_device", "param_groups", "optimizer", "lr_scheduler",
       "resume_checkpoint", "augmentation", "data_loader", "split_validation",
       "loss", "metrics", "Trainer", "train" >>

CallOps == [ i \in 1..Len(calls) |-> calls[i].op ]

\* the first k steps of TrainOrder, the augmentation step taken once
OrderPrefix(k) == SubSeq(TrainOrder, 1, k)

\* the first k steps of TrainOrder, the augmentation step taken twice
OrderPrefixWithRetry(k) ==
    LET a == CHOOSE i \in 1..Len(TrainOrder) : TrainOrder[i] = "augmentation" IN
    SubSeq(TrainOrder, 1, a) \o <<"augmentation">> \o SubSeq(TrainOrder, a + 1, k)

FirstAugAttempt(j) ==
    /\ calls[j].op = "augmentation"
    /\ (j = 1 \/ calls[j - 1].op # "augmentation")

\* C10: the steps of TrainingManager.run happen in the fixed order; trainer.train
\* is invoked at most once and only after every earlier step succeeded (the
\* first augmentation attempt excepted, when its retry succeeded); a failure of
\* any step other than the first augmentation attempt is the last call made and
\* leaves run() at once; a completed run has invoked trainer.train exactly once.
C10_TrainOrder ==
    /\ \E k \in 0..Len(TrainOrder) :
          \/ CallOps = OrderPrefix(k)
          \/ (k >= 7 /\ CallOps = OrderPrefixWithRetry(k))
    /\ Cardinality({ i \in 1..Len(calls) : calls[i].op = "train" }) <= 1
    /\ \A i \in 1..Len(calls) :
          calls[i].op = "train" =>
             \A j \in 1..(i - 1) :
                 \/ calls[j].result = "ok"
                 \/ (FirstAugAttempt(j) /\ calls[j + 1].op = "augmentation"
                        /\ calls[j + 1].result = "ok")
    /\ \A j \in 1..Len(calls) :
          (calls[j].result = "raised" /\ ~FirstAugAttempt(j)) =>
              /\ j = Len(calls)
              /\ pc = "raised"
              /\ calls[j].op # "train" => ~Called("train")
    /\ pc = "raised" => calls[Len(calls)].result = "raised"
    /\ pc = "done" => Returned("train")

\* C10 witness: the loss construction failed after a successful augmentation
\* fallback, and run() was left without trainer.train being invoked.
C10_Witness ==
    /\ pc = "raised"
    /\ Len(AugCalls) = 2
    /\ calls[Len(calls)].op = "loss"
    /\ calls[Len(calls)].result = "raised"
    /\ ~Called("train")


(***************************************************************************)
(* InferenceManager helpers.                                               *)
(***************************************************************************)
InferDevices == {"None", "cpu", "cuda:0"}

\* InferenceManager.setup_device(device)
infer_setup_device(d) ==
    IF d = "None" \/ d = "cpu" THEN CpuDevice ELSE CudaDevice(0)

\* InferenceManager.extract_score: unwraps a scalar tensor with .item()
extract_score(ckpt) ==
    IF ckpt.is_tensor THEN ckpt.monitor_best[1] ELSE ckpt.monitor_best

\* a check_score that only logs the warning and goes on
check_score_warn_only(ckpt, threshold) ==
    [ raised |-> FALSE, best_score |-> extract_score(ckpt) ]

\* InferenceManager.check_score, threshold being self.cfg["score_threshold"]
check_score(ckpt, threshold) ==
    LET score == extract_score(ckpt) IN
    [ raised |-> score < threshold, best_score |-> score ]

\* a loop that stops one batch early
loop_has_next_skips_last(taken, n) == taken < n - 1

\* for bidx, (f, data) in enumerate(data_loader): is there another batch?
loop_has_next(taken, n) == taken < n

InferCheckpointFiles ==
    { f \in CheckpointFiles : f.epoch = 0 /\ f.optimizer_type = "SGD" }

(***************************************************************************)
(* InferenceManager.run, one action per statement.                         *)
(***************************************************************************)
InitInfer ==
    /\ IdleTrainLocals
    /\ resume = ""
    /\ IdleInferLocals
    /\ IdleMetric
    /\ \E dev \in InferDevices, threshold \in Scores :
          InitManager(<<>>, <<>>, dev, threshold, "LightTransforms", "SGD")

trainOnlyVars == <<device_count, param_groups, optimizer, resume, start_epoch, pre_resume>>

\* cfg = self.cfg.copy()
Infer_Copy ==
    /\ pc = "copy"
    /\ cfg' = ShallowCopy(self_cfg)
    /\ Goto("setup_device")
    /\ UNCHANGED <<self_cfg, heap, cfg0, calls, model, device, checkpoint>>
    /\ UNCHANGED <<trainOnlyVars, inferVars, metricVars>>

\* device = self.setup_device(cfg["device"])
Infer_SetupDevice ==
    /\ pc = "setup_device"
    /\ device' = infer_setup_device(cfg.device)
    /\ Step(Plain("setup_device"), "ok")
    /\ Goto("set_device")
    /\ UNCHANGED <<cfgVars, model, checkpoint>>
    /\ UNCHANGED <<trainOnlyVars, inferVars, metricVars>>

\* torch.cuda.set_device(device)
Infer_SetCudaDevice ==
    /\ pc = "set_device"
    /\ \/ Step(Plain("set_device"), "ok") /\ Goto("load_checkpoint")
       \/ Step(Plain("set_device"), "raised") /\ Raise("set_device", "DeviceError")
    /\ UNCHANGED <<cfgVars, model, device, checkpoint>>
    /\ UNCHANGED <<trainOnlyVars, inferVars, metricVars>>

\* checkpoint = self.load_checkpoint(model_checkpoint, device)
Infer_LoadCheckpoint ==
    /\ pc = "load_checkpoint"
    /\ \/ /\ \E f \in InferCheckpointFiles :
               /\ checkpoint' = Loaded(f)
               /\ heap' = HeapAfterLoad(heap, f)
          /\ Step(Plain("load_checkpoint"), "ok")
          /\ Goto("check_score")
       \/ /\ Step(Plain("load_checkpoint"), "raised")
          /\ Raise("load_checkpoint", "LoadError")
          /\ UNCHANGED <<heap, checkpoint>>
    /\ UNCHANGED <<self_cfg, cfg0, cfg, model, device>>
    /\ UNCHANGED <<trainOnlyVars, inferVars, metricVars>>

\* best_score = self.check_score(checkpoint); train_cfg = checkpoint["config"]
Infer_CheckScore ==
    /\ pc = "check_score"
    /\ LET r == check_score(checkpoint, self_cfg.score_threshold) IN
        IF r.raised
        THEN /\ Step(Plain("check_score"), "raised")
             /\ Raise("check_score", "Exception")
             /\ UNCHANGED best_score
        ELSE /\ Step(Plain("check_score"), "ok")
             /\ best_score' = r.best_score
             /\ Goto("arch")
    /\ UNCHANGED <<cfgVars, model, device, checkpoint>>
    /\ UNCHANGED <<trainOnlyVars, loader, bidx, writes, closes, metricVars>>

\* model = self.get_instance(module_arch, "arch", train_cfg)
Infer_Arch ==
    /\ pc = "arch"
    /\ LET c == get_instance(heap, "arch", checkpoint.config) IN
        \/ Step(c, "ok") /\ model' = NewModel /\ Goto("load_state_dict")
        \/ Step(c, "raised") /\ UNCHANGED model /\ Raise("arch", "ConstructionError")
    /\ UNCHANGED <<cfgVars, device, checkpoint>>
    /\ UNCHANGED <<trainOnlyVars, inferVars, metricVars>>

\* model.load_state_dict(checkpoint["state_dict"])
Infer_LoadStateDict ==
    /\ pc = "load_state_dict"
    /\ \/ /\ Step(Plain("load_state_dict"), "ok")
          /\ model' = [model EXCEPT !.weights = checkpoint.state_dict]
          /\ Goto("build_tta_model")
       \/ /\ Step(Plain("load_state_dict"), "raised")
          /\ UNCHANGED model
          /\ Raise("load_state_dict", "RuntimeError")
    /\ UNCHANGED <<cfgVars, device, checkpoint>>
    /\ UNCHANGED <<trainOnlyVars, inferVars, metricVars>>

\* tta_model = self.build_tta_model(model, cfg, device)
Infer_BuildTta ==
    /\ pc = "build_tta_model"
    /\ \/ Step(Plain("build_tta_model"), "ok") /\ Goto("augmentation")
       \/ Step(Plain("build_tta_model"), "raised") /\ Raise("build_tta_model", "AttributeError")
    /\ UNCHANGED <<cfgVars, model, device, checkpoint>>
    /\ UNCHANGED <<trainOnlyVars, inferVars, metricVars>>

\* transforms = self.get_instance(module_aug, "augmentation", train_cfg)
Infer_Augmentation ==
    /\ pc = "augmentation"
    /\ LET c == get_instance(heap, "augmentation", checkpoint.config) IN
        \/ Step(c, "ok") /\ Goto("data_loader")
        \/ Step(c, "raised") /\ Raise("augmentation", "ConstructionError")
    /\ UNCHANGED <<cfgVars, model, device, checkpoint>>
    /\ UNCHANGED <<trainOnlyVars, inferVars, metricVars>>

\* data_loader = self.get_instance(module_data, "data_loader", cfg, transforms)
Infer_DataLoader ==
    /\ pc = "data_loader"
    /\ LET c == get_instance(heap, "data_loader", cfg) IN
        \/ /\ Step(c, "ok")
           /\ loader' \in 0..MaxBatches
           /\ Goto("build_h5_writer")
        \/ Step(c, "raised") /\ UNCHANGED loader /\ Raise("data_loader", "ConstructionError")
    /\ UNCHANGED <<cfgVars, model, device, checkpoint>>
    /\ UNCHANGED <<trainOnlyVars, best_score, bidx, writes, closes, metricVars>>

\* writer = self.build_h5_writer(cfg, train_cfg, model_checkpoint, best_score)
Infer_BuildWriter ==
    /\ pc = "build_h5_writer"
    /\ \/ Step(Plain("build_h5_writer"), "ok") /\ Goto("next_batch")
       \/ Step(Plain("build_h5_writer"), "raised") /\ Raise("build_h5_writer", "WriterError")
    /\ UNCHANGED <<cfgVars, model, device, checkpoint>>
    /\ UNCHANGED <<trainOnlyVars, inferVars, metricVars>>

\* for bidx, (f, data) in tqdm(enumerate(data_loader), total=len(data_loader)):
Infer_NextBatch ==
    /\ pc = "next_batch"
    /\ IF loop_has_next(bidx, loader)
       THEN \/ /\ bidx' = bidx + 1
               /\ Step(Plain("next_batch"), "ok")
               /\ Goto("forward")
            \/ /\ UNCHANGED bidx      \* the data loader raises
               /\ Step(Plain("next_batch"), "raised")
               /\ Raise("next_batch", "DataError")
       ELSE /\ UNCHANGED <<bidx, calls>>
            /\ Goto("close")
    /\ UNCHANGED <<cfgVars, model, device, checkpoint>>
    /\ UNCHANGED <<trainOnlyVars, best_score, loader, writes, closes, metricVars>>

\* data = data.to(device); output = torch.sigmoid(tta_model(data))
\* output = output.cpu().numpy()
Infer_Forward ==
    /\ pc = "forward"
    /\ \/ Step(Plain("forward"), "ok") /\ Goto("write")
       \/ Step(Plain("forward"), "raised") /\ Raise("forward", "RuntimeError")
    /\ UNCHANGED <<cfgVars, model, device, checkpoint>>
    /\ UNCHANGED <<trainOnlyVars, inferVars, metricVars>>

\* writer.write(output)
Infer_Write ==
    /\ pc = "write"
    /\ \/ /\ writes' = Append(writes, [ batch |-> bidx, result |-> "ok" ])
          /\ Goto("next_batch")
       \/ /\ writes' = Append(writes, [ batch |-> bidx, result |-> "raised" ])
          /\ Raise("write", "WriteError")
    /\ UNCHANGED <<cfgVars, calls, model, device, checkpoint>>
    /\ UNCHANGED <<trainOnlyVars, best_score, loader, bidx, closes, metricVars>>

\* self.logger.info(writer.close())
Infer_Close ==
    /\ pc = "close"
    /\ closes' = closes + 1
    /\ \/ Goto("done")
       \/ Raise("close", "WriteError")
    /\ UNCHANGED <<cfgVars, calls, model, device, checkpoint>>
    /\ UNCHANGED <<trainOnlyVars, best_score, loader, bidx, writes, metricVars>>

NextInfer ==
    \/ Infer_Copy
    \/ Infer_SetupDevice
    \/ Infer_SetCudaDevice
    \/ Infer_LoadCheckpoint
    \/ Infer_CheckScore
    \/ Infer_Arch
    \/ Infer_LoadStateDict
    \/ Infer_BuildTta
    \/ Infer_Augmentation
    \/ Infer_DataLoader
    \/ Infer_BuildWriter
    \/ Infer_NextBatch
    \/ Infer_Forward
    \/ Infer_Write
    \/ Infer_Close

SpecInfer == InitInfer /\ [][NextInfer]_vars

(***************************************************************************)
(* Properties of InferenceManager.run (checked under SpecInfer).           *)
(***************************************************************************)
\* C1: when the loaded checkpoint's monitor_best (a scalar tensor unwrapped) is
\* below self.cfg["score_threshold"], check_score raises and run() is left
\* before anything is built: no get_instance for "arch", no TTA model, no
\* augmentation, data loader or writer, no write and no close.
C1_LowScoreRejected ==
    LET score == IF checkpoint.is_tensor THEN checkpoint.monitor_best[1]
                 ELSE checkpoint.monitor_best
    IN (Called("check_score") /\ score < self_cfg.score_threshold) =>
          /\ pc = "raised"
          /\ err = "Exception"
          /\ calls[Len(calls)] = Logged(Plain("check_score"), "raised")
          /\ ~Called("arch")
          /\ ~model.built
          /\ ~Called("build_tta_model")
          /\ ~Called("augmentation")
          /\ ~Called("data_loader")
          /\ ~Called("build_h5_writer")
          /\ writes = <<>>
          /\ closes = 0

\* C1 witness: a checkpoint whose monitor_best is a scalar tensor below the
\* threshold has been checked.
C1_Witness ==
    /\ Called("check_score")
    /\ checkpoint.is_tensor
    /\ checkpoint.monitor_best[1] < self_cfg.score_threshold

\* C2: writer.write is called once per batch taken from the loader, in loader
\* order; writer.close is called at most once and only after a write for every
\* batch succeeded, and exactly once in a completed run; a write that raises is
\* the last write, is not retried, leaves run() with its error, no further batch
\* is taken and close is not called.
C2_WriteOncePerBatch ==
    /\ Len(writes) <= loader
    /\ \A i \in 1..Len(writes) : writes[i].batch = i
    /\ Len(writes) \in {bidx, bidx - 1}
    /\ pc = "next_batch" => Len(writes) = bidx
    /\ closes <= 1
    /\ closes = 1 =>
          /\ Len(writes) = loader
          /\ \A i \in 1..Len(writes) : writes[i].result = "ok"
    /\ pc = "done" => (closes = 1 /\ Len(writes) = loader)
    /\ \A i \in 1..Len(writes) :
          writes[i].result = "raised" =>
              /\ i = Len(writes)
              /\ bidx = i
              /\ pc = "raised"
              /\ err = "WriteError"
              /\ closes = 0

\* C2 witness: the second of at least two batches was written after the first,
\* its write raised, and run() was left without close.
C2_Witness ==
    /\ Len(writes) >= 2
    /\ writes[1].result = "ok"
    /\ writes[Len(writes)].result = "raised"
    /\ pc = "raised"
    /\ closes = 0


(***************************************************************************)
(* The metric module (src/uco/model/metric.py).                            *)
(*                                                                         *)
(* Tensors: output[b][c][i] is a probability in percent, targets[b][c][i]  *)
(* is 0 or 1; b in 1..B, c in 0..NumClasses-1, i in 1..H*W (the view(-1)   *)
(* of one channel).  Thresholds are in percent.                            *)
(*                                                                         *)
(* eps = 1e-9 does not fit TLC's integers once scaled, so a Dice value is  *)
(* kept exactly, as a fraction of two polynomials in eps with integer      *)
(* coefficients: <<c0, c1, c2>> stands for c0 + c1*eps + c2*eps^2.  Two    *)
(* such polynomials with coefficients below 10^9 in size take the same     *)
(* value at eps = 1e-9 only if they are the same polynomial.               *)
(***************************************************************************)
NumClasses == 4
Classes == 0..(NumClasses - 1)

\* the thresholds of the partial(...) variants, precision_c_20 .. recall_c_80
ThresholdGrid == {20, 30, 40, 50, 60, 70, 80}

Probabilities == {0, 50, 100}

RECURSIVE SumOver(_, _)
\* the sum of f[x] over the finite set S
SumOver(f, S) ==
    IF S = {} THEN 0
    ELSE LET x == CHOOSE y \in S : TRUE IN f[x] + SumOver(f, S \ {x})

Coef(p, k) == IF k \in 1..Len(p) THEN p[k] ELSE 0

PolyAdd(p, q) ==
    [ k \in 1..(IF Len(p) > Len(q) THEN Len(p) ELSE Len(q)) |-> Coef(p, k) + Coef(q, k) ]

PolyMul(p, q) ==
    [ k \in 1..(Len(p) + Len(q) - 1) |->
        SumOver([ i \in 1..Len(p) |-> p[i] * Coef(q, k - i + 1) ], 1..Len(p)) ]

PolyScale(n, p) == [ k \in 1..Len(p) |-> n * p[k] ]

PolyIsZero(p) == \A k \in 1..Len(p) : p[k] = 0

\* a/b + c/d
FracAdd(x, y) ==
    [ num |-> PolyAdd(PolyMul(x.num, y.den), PolyMul(y.num, x.den)),
      den |-> PolyMul(x.den, y.den) ]

\* (a/b) / n
FracDivInt(x, n) == [ num |-> x.num, den |-> PolyScale(n, x.den) ]

\* (x > threshold).float()
Binarize(x, threshold) == IF x > threshold THEN 1 ELSE 0

\* (truth > 0.5).float(), truth in units of 1
BinarizeTruth(x) == IF 2 * x > 1 THEN 1 ELSE 0

\* dice_single_channel with the smoothing left out
dice_single_channel_no_eps(probability, truth, threshold) ==
    LET I == DOMAIN probability
        p == [ i \in I |-> Binarize(probability[i], threshold) ]
        t == [ i \in I |-> BinarizeTruth(truth[i]) ]
    IN [ num |-> << 2 * SumOver([ i \in I |-> p[i] * t[i] ], I), 0 >>,
         den |-> << SumOver(p, I) + SumOver(t, I), 0 >> ]

\* dice_single_channel(probability, truth, threshold, eps=1e-9)
dice_single_channel(probability, truth, threshold) ==
    LET I == DOMAIN probability
        p == [ i \in I |-> Binarize(probability[i], threshold) ]
        t == [ i \in I |-> BinarizeTruth(truth[i]) ]
    IN [ num |-> << 2 * SumOver([ i \in I |-> p[i] * t[i] ], I), 1 >>,
         den |-> << SumOver(p, I) + SumOver(t, I), 1 >> ]

RECURSIVE DiceTotal(_, _, _, _, _)
\* total after the first n rounds of `for b in range(B): total += ...`
DiceTotal(c, out, tgt, threshold, n) ==
    IF n = 0 THEN [ num |-> <<0>>, den |-> <<1>> ]
    ELSE FracAdd(DiceTotal(c, out, tgt, threshold, n - 1),
                 dice_single_channel(out[n][c], tgt[n][c], threshold))

\* dice_c(c, output, targets, threshold)
dice_c(c, out, tgt, threshold) ==
    LET B == Len(tgt) IN FracDivInt(DiceTotal(c, out, tgt, threshold, B), B)

(***************************************************************************)
(* _confusion: IEEE division of prediction by truth, element by element.   *)
(***************************************************************************)
NaN == [ kind |-> "nan", value |-> 0 ]
Inf == [ kind |-> "inf", value |-> 0 ]
Finite(v) == [ kind |-> "finite", value |-> v ]

\* p / t for p in {0, 1} and t in {0, 1}
Quotient(p, t) ==
    IF t = 0
    THEN IF p = 0 THEN NaN ELSE Inf
    ELSE Finite(p \div t)

\* the elements of a [B, H*W] slice
Cells(x) == { <<b, i>> : b \in DOMAIN x, i \in 1..Len(x[1]) }

\* _confusion testing for nan with ==, which no value satisfies
confusion_nan_by_equality(prediction, truth) ==
    LET E == Cells(prediction)
        v == [ e \in E |-> Quotient(prediction[e[1]][e[2]], truth[e[1]][e[2]]) ]
    IN [ tp |-> Cardinality({ e \in E : v[e] = Finite(1) }),
         fp |-> Cardinality({ e \in E : v[e] = Inf }),
         tn |-> 0,
         fn |-> Cardinality({ e \in E : v[e] = Finite(0) }) ]

\* _confusion(prediction, truth)
confusion_(prediction, truth) ==
    LET E == Cells(prediction)
        confusion_vector ==
            [ e \in E |-> Quotient(prediction[e[1]][e[2]], truth[e[1]][e[2]]) ]
    IN [ tp |-> Cardinality({ e \in E : confusion_vector[e] = Finite(1) }),
         fp |-> Cardinality({ e \in E : confusion_vector[e] = Inf }),
         tn |-> Cardinality({ e \in E : confusion_vector[e].kind = "nan" }),
         fn |-> Cardinality({ e \in E : confusion_vector[e] = Finite(0) }) ]

\* preds = (output[:, class_] > threshold).float()
Preds(out, c, threshold) ==
    [ b \in DOMAIN out |->
        [ i \in DOMAIN out[b][c] |-> Binarize(out[b][c][i], threshold) ] ]

\* targets[:, class_]
Slice(tgt, c) == [ b \in DOMAIN tgt |-> tgt[b][c] ]

\* precision without the zero-zero special case
precision_no_special_case(out, tgt, c, threshold) ==
    LET m == confusion_(Preds(out, c, threshold), Slice(tgt, c))
    IN [ num |-> m.tp, den |-> m.tp + m.fp ]

\* precision(output, targets, class_, threshold), as a fraction
precision(out, tgt, c, threshold) ==
    LET m == confusion_(Preds(out, c, threshold), Slice(tgt, c))
    IN IF m.tp = 0 /\ m.fp = 0
       THEN [ num |-> 1, den |-> 1 ]
       ELSE [ num |-> m.tp, den |-> m.tp + m.fp ]

\* recall(output, targets, class_, threshold), as a fraction
recall(out, tgt, c, threshold) ==
    LET m == confusion_(Preds(out, c, threshold), Slice(tgt, c))
    IN IF m.tp = 0 /\ m.fn = 0
       THEN [ num |-> 1, den |-> 1 ]
       ELSE [ num |-> m.tp, den |-> m.tp + m.fn ]

(***************************************************************************)
(* The metric functions applied to one batch, for one class, across the    *)
(* threshold grid.                                                         *)
(***************************************************************************)
Shapes ==
    { s \in (1..MaxBatch) \X (1..MaxPixels) : s[1] * s[2] <= MaxCells }

\* a [B, NumClasses, H*W] tensor: channel c holds x, the others are filled
Tensor(B, HW, c, x, fill) ==
    [ b \in 1..B |-> [ k \in Classes |->
        [ i \in 1..HW |-> IF k = c THEN x[b][i] ELSE fill ] ] ]

InitMetric ==
    /\ IdleTrainLocals
    /\ resume = ""
    /\ IdleInferLocals
    /\ InitManager(<<>>, <<>>, "None", 0, "LightTransforms", "SGD")
    /\ class_ \in Classes
    /\ \E s \in Shapes :
         \E x \in [1..s[1] -> [1..s[2] -> Probabilities]],
            y \in [1..s[1] -> [1..s[2] -> {0, 1}]],
            fill \in { <<0, 1>>, <<100, 0>> } :
              /\ output = Tensor(s[1], s[2], class_, x, fill[1])
              /\ targets = Tensor(s[1], s[2], class_, y, fill[2])
    /\ mpc = "dice"
    /\ confusion = <<>>
    /\ dice = <<>>
    /\ prec = <<>>
    /\ rec = <<>>

\* dice_c(class_, output, targets, threshold)
Metric_Dice ==
    /\ mpc = "dice"
    /\ dice' = [ th \in ThresholdGrid |-> dice_c(class_, output, targets, th) ]
    /\ mpc' = "precision"
    /\ UNCHANGED <<output, targets, class_, confusion, prec, rec>>
    /\ UNCHANGED <<managerVars, trainVars, inferVars>>

\* precision(output, targets, class_, threshold), and the counts it got
\* from _confusion
Metric_Precision ==
    /\ mpc = "precision"
    /\ confusion' = [ th \in ThresholdGrid |->
                        confusion_(Preds(output, class_, th), Slice(targets, class_)) ]
    /\ prec' = [ th \in ThresholdGrid |-> precision(output, targets, class_, th) ]
    /\ mpc' = "recall"
    /\ UNCHANGED <<output, targets, class_, dice, rec>>
    /\ UNCHANGED <<managerVars, trainVars, inferVars>>

\* recall(output, targets, class_, threshold)
Metric_Recall ==
    /\ mpc = "recall"
    /\ rec' = [ th \in ThresholdGrid |-> recall(output, targets, class_, th) ]
    /\ mpc' = "done"
    /\ UNCHANGED <<output, targets, class_, confusion, dice, prec>>
    /\ UNCHANGED <<managerVars, trainVars, inferVars>>

NextMetric ==
    \/ Metric_Dice
    \/ Metric_Precision
    \/ Metric_Recall

SpecMetric == InitMetric /\ [][NextMetric]_vars

(***************************************************************************)
(* Properties of the metric functions (checked under SpecMetric).          *)
(***************************************************************************)
BatchItems == DOMAIN output
Pixels == DOMAIN output[1][class_]
Elements == BatchItems \X Pixels

PredAt(e, th) == IF output[e[1]][class_][e[2]] > th THEN 1 ELSE 0
TruthAt(e) == targets[e[1]][class_][e[2]]

\* C7: for prediction and truth of the same shape with all values in {0, 1},
\* the counts _confusion returns add up to the number of elements, and count
\* the elements (1,1) as TP, (1,0) as FP, (0,0) as TN and (0,1) as FN.
C7_ConfusionPartition ==
    (mpc \in {"recall", "done"} /\ \A e \in Elements : TruthAt(e) \in {0, 1}) =>
        \A th \in ThresholdGrid :
            LET m == confusion[th] IN
            /\ m.tp + m.fp + m.tn + m.fn = Cardinality(Elements)
            /\ m.tp = Cardinality({ e \in Elements : PredAt(e, th) = 1 /\ TruthAt(e) = 1 })
            /\ m.fp = Cardinality({ e \in Elements : PredAt(e, th) = 1 /\ TruthAt(e) = 0 })
            /\ m.tn = Cardinality({ e \in Elements : PredAt(e, th) = 0 /\ TruthAt(e) = 0 })
            /\ m.fn = Cardinality({ e \in Elements : PredAt(e, th) = 0 /\ TruthAt(e) = 1 })

\* C7 witness: _confusion has counted a slice in which all four cases occur.
C7_Witness ==
    /\ mpc = "done"
    /\ \E th \in ThresholdGrid :
          /\ confusion[th].tp > 0
          /\ confusion[th].fp > 0
          /\ confusion[th].tn > 0
          /\ confusion[th].fn > 0

AllZero ==
    \A e \in Elements : output[e[1]][class_][e[2]] = 0 /\ TruthAt(e) = 0

\* a fraction of integers that is exactly 1
FracIsOne(x) == x.den # 0 /\ x.num = x.den
\* a fraction of integers that is exactly 0
FracIsNought(x) == x.den # 0 /\ x.num = 0
\* a Dice value that is exactly 1
DiceIsOne(x) == ~PolyIsZero(x.den) /\ x.num = x.den
\* a Dice value that is exactly 0
DiceIsNought(x) == ~PolyIsZero(x.den) /\ PolyIsZero(x.num)

\* C8: for an all-zero prediction and an all-zero target on the class, at every
\* threshold of the grid, dice_c, precision and recall each return exactly 1.
C8_AllEmptyScoresOne ==
    (mpc = "done" /\ AllZero) =>
        \A th \in ThresholdGrid :
            /\ DiceIsOne(dice[th])
            /\ FracIsOne(prec[th])
            /\ FracIsOne(rec[th])

\* C8 witness: the three metrics were computed for an all-zero batch of two.
C8_Witness ==
    /\ mpc = "done"
    /\ AllZero
    /\ Cardinality(BatchItems) = 2
    /\ confusion[50].tn = Cardinality(Elements)

PredMask(b, th) == { i \in Pixels : PredAt(<<b, i>>, th) = 1 }
TruthMask(b) == { i \in Pixels : TruthAt(<<b, i>>) = 1 }

\* in every batch item the binarized prediction and the target are disjoint
\* and of the same nonzero size
DisjointEqualNonzero(th) ==
    \A b \in BatchItems :
        /\ PredMask(b, th) \cap TruthMask(b) = {}
        /\ Cardinality(PredMask(b, th)) = Cardinality(TruthMask(b))
        /\ PredMask(b, th) # {}

\* C9 (as claimed): for disjoint masks of equal nonzero size Dice = 0,
\* precision = 0 and recall = 0.
C9_DisjointScoresZero ==
    mpc = "done" =>
        \A th \in ThresholdGrid :
            DisjointEqualNonzero(th) =>
                /\ DiceIsNought(dice[th])
                /\ FracIsNought(prec[th])
                /\ FracIsNought(rec[th])

\* C9 (amended): for disjoint masks of equal nonzero size precision and recall
\* are exactly 0, and Dice is not 0 but positive and of the order of eps: its
\* numerator has no term free of eps and no negative coefficient, its
\* denominator has a positive term free of eps; for a single batch item with
\* masks of n elements it is eps / (2n + eps).
C9_DisjointPrecisionRecallZero ==
    mpc = "done" =>
        \A th \in ThresholdGrid :
            DisjointEqualNonzero(th) =>
                /\ FracIsNought(prec[th])
                /\ FracIsNought(rec[th])
                /\ ~PolyIsZero(dice[th].num)
                /\ dice[th].num[1] = 0
                /\ dice[th].den[1] > 0
                /\ \A k \in 1..Len(dice[th].num) : dice[th].num[k] >= 0
                /\ \A k \in 1..Len(dice[th].den) : dice[th].den[k] >= 0
                /\ Cardinality(BatchItems) = 1 =>
                      dice[th] = [ num |-> << 0, 1 >>,
                                   den |-> << 2 * Cardinality(TruthMask(1)), 1 >> ]

\* C9 witness: the metrics were computed for a batch of two items, each with
\* disjoint one-element masks.
C9_Witness ==
    /\ mpc = "done"
    /\ Cardinality(BatchItems) = 2
    /\ DisjointEqualNonzero(50)
    /\ confusion[50].fp = 2
    /\ confusion[50].fn = 2

(***************************************************************************)
(* setup_param_groups_classifier on any model: TrainingManager.run at the  *)
(* statement that builds the parameter groups, for a model (already placed *)
(* on the CPU) with any list of up to MaxParams distinctly named           *)
(* parameters and any optimizer args.  A name is the sequence of the       *)
(* pieces of its string, cut so that "bias" is a piece wherever it occurs. *)
(***************************************************************************)
NamePieces == {"weight", "bias"}
ParamNames == UNION { [1..k -> NamePieces] : k \in 1..2 }
ParamLists == ListsUpTo(ParamNames, MaxParams)
OptimizerArgs == {"lr_only_args", "lr_and_momentum_args"}

InitParams ==
    /\ IdleInferLocals
    /\ IdleMetric
    /\ self_cfg = [ blocks |-> [k \in CompKeys |-> Ref("config", k)],
                    target_devices |-> <<>>, metrics |-> <<>>,
                    device |-> "None", score_threshold |-> 0 ]
    /\ \E a \in OptimizerArgs :
          heap = [ InitHeap("LightTransforms", "SGD")
                     EXCEPT ![Ref("config", "optimizer")].args = a ]
    /\ cfg0 = Contents(heap, self_cfg)
    /\ cfg = ShallowCopy(self_cfg)
    /\ pc = "param_groups"
    /\ err = "none"
    /\ calls = << Logged(get_instance(heap, "arch", cfg), "ok"),
                  Logged(Plain("setup_device"), "ok") >>
    /\ \E ps \in ParamLists :
          model = setup_device([NewModel EXCEPT !.params = ps], <<>>, 0).model
    /\ device = CpuDevice
    /\ device_count = 0
    /\ param_groups = <<>>
    /\ optimizer = NoOptimizer
    /\ resume = ""
    /\ checkpoint = NoCheckpoint
    /\ start_epoch = 0
    /\ pre_resume = [ model |-> NoModel, optimizer |-> NoOptimizer ]

NextParams == Train_ParamGroups

SpecParams == InitParams /\ [][NextParams]_vars

\* the positions of model.params a group's parameters come from, in group order
PositionsOf(g) ==
    [ i \in 1..Len(g.params) |->
        CHOOSE j \in 1..Len(model.params) : model.params[j] = g.params[i] ]

\* C11: setup_param_groups_classifier returns exactly two groups; every named
\* parameter of the model is in exactly one of them; the second holds exactly
\* the parameters whose name ends with "bias", the first all others; each group
\* keeps the model's parameter order; both carry the options config["args"].
C11_ParamGroupsPartition ==
    Called("param_groups") =>
        /\ Len(param_groups) = 2
        /\ LET w == param_groups[1]
               b == param_groups[2]
               P == model.params
           IN /\ Len(w.params) + Len(b.params) = Len(P)
              /\ \A j \in 1..Len(P) :
                    Cardinality({ i \in 1..Len(w.params) : w.params[i] = P[j] })
                      + Cardinality({ i \in 1..Len(b.params) : b.params[i] = P[j] }) = 1
              /\ \A j \in 1..Len(P) :
                    (P[j][Len(P[j])] = "bias")
                        <=> (\E i \in 1..Len(b.params) : b.params[i] = P[j])
              /\ \A i \in 1..Len(w.params) : w.params[i][Len(w.params[i])] # "bias"
              /\ \A i \in 1..Len(b.params) : b.params[i][Len(b.params[i])] = "bias"
              /\ \A g \in {w, b} :
                    \A i, k \in 1..Len(g.params) :
                        i < k => PositionsOf(g)[i] < PositionsOf(g)[k]
              /\ w.opts = Block(heap, cfg, "optimizer").args
              /\ b.opts = w.opts

\* C11 witness: the groups were built for a model whose parameters are, in this
\* order, bias.weight, a bias, and weight: two weights around one bias, one of
\* the weights with "bias" inside its name.
C11_Witness ==
    /\ Called("param_groups")
    /\ model.params = << <<"bias", "weight">>, <<"weight", "bias">>, <<"weight">> >>
    /\ param_groups[1].params = << <<"bias", "weight">>, <<"weight">> >>
    /\ param_groups[2].params = << <<"weight", "bias">> >>

=============================================================================
